---- MODULE Spec2Model ----
(***************************************************************************)
(* A model of data-delta-force's rate-limited API access layer.            *)
(*                                                                         *)
(* RateLimiter (src/src/data_ingestion/rate_limiter.py) is modelled as a   *)
(* state machine shared by several threads.  Time is counted in ticks of   *)
(* 0.1 s, the smallest duration the code uses (the sleep buffer of         *)
(* acquire), so the 'second' window is 10 ticks and the 'minute' window    *)
(* 600 ticks.  Every time.time() read of one handler returns the same      *)
(* instant (a simulated clock); time advances between handlers (Tick) and  *)
(* across the sleep of a blocking acquire.                                 *)
(*                                                                         *)
(* The callers of the limiter follow: the wrapper that rate_limited makes  *)
(* (same file), and CoinGeckoClient and FREDClient (coingecko_client.py,   *)
(* fred_client.py), whose requests go through the limiter and through the  *)
(* retry policy of their session, and whose results go through a           *)
(* DataValidator (data_validator.py).                                      *)
(***************************************************************************)
EXTENDS Integers, Sequences, FiniteSets, TLC

\* ---------------------------------------------------------------- bounds
\* Largest ceiling a window is configured with.
MaxCeiling == 2
\* Number of calls (acquire, get_stats, reset) the threads issue in a run.
MaxCalls == 5
\* Number of times the clock advances outside sleeps in a run.
MaxTicks == 3

\* Number of calls made on one DataValidator in a run.
MaxValidations == 3
\* Largest number of rows of the tables that are enumerated in full.
MaxRows == 3
\* Number of rows of the longest sample table, and the largest numbers of
\* nulls and of far-off values the sample tables hold.
LongRows == 48
MaxNulls == 3
MaxOutliers == 11
\* Largest max_retries a wrapper or a client is given.
MaxRetries == 2
\* Number of fetches made on one client in a run.
MaxFetches == 2
\* Longest required_fields list _validate_required_fields is called with.
MaxRequired == 3
\* Largest bound _validate_numeric_range is called with.
RangeTop == 2

\* ------------------------------------------------------------- constants
\* time.sleep(wait_time + 0.1): the buffer, in ticks.
SleepBuffer == 1

\* Python's None, kept apart from every integer the model uses.
None == 0 - 1

Threads == {1, 2}
NoThread == 0

\* The keys of self.limits in insertion order.
PeriodOrder == <<"second", "minute", "hour", "day">>

\* The window_seconds of each period, in ticks of 0.1 s.
WindowSeconds(period) ==
    CASE period = "second" -> 10
      [] period = "minute" -> 600
      [] period = "hour" -> 36000
      [] period = "day" -> 864000

\* The ceilings a caller may pass for the 'second' and 'minute' windows:
\* None, or any integer (the constructor checks nothing); 'hour' and 'day'
\* are left at their default None.
CeilingArgs == {None} \cup (0 .. MaxCeiling) \cup {0 - 2}

\* By how much the clock advances between two steps: one tick, or nine, so
\* that the instants just before, at and just after the end of the
\* 'second' window of a call are all reached.
ClockSteps == {1, 9}

VARIABLES
    constructed,   \* whether __init__ has run
    limits,        \* self.limits: period -> max_calls (window_seconds is WindowSeconds)
    call_history,  \* self.call_history: period -> deque of timestamps
    lock,          \* holder of self._lock, or NoThread
    now,           \* the clock, in ticks
    pc,            \* thread -> "idle", the call it waits to run under the lock, or "sleeping"
    wake_at,       \* when the time.sleep of the thread holding the lock ends
    last,          \* the latest step of a call: who, which call, what it returned or raised
    issued,        \* calls issued so far
    ticks,         \* clock advances so far
    scope,         \* thread -> where it is in its `with limiter:` statement
    scope_out,     \* how the latest `with limiter:` statement ended
    validator,     \* whether DataValidator.__init__ has run
    strict_mode,   \* self.strict_mode
    validation_history,  \* self.validation_history: list of ValidationResult
    vlast,         \* the latest DataValidator call: its arguments, its findings, what it raised
    validations,   \* DataValidator calls made so far
    wrapper,       \* the wrapper rate_limited makes: its parameters, and where its call is
    client         \* an API client: its parameters, and where its fetch is

limiter_vars ==
    <<constructed, limits, call_history, lock, now, pc, wake_at, last, issued, ticks>>

scope_vars == <<scope, scope_out>>

validator_vars == <<validator, strict_mode, validation_history, vlast, validations>>

caller_vars == <<wrapper, client>>

vars == <<limiter_vars, scope_vars, validator_vars, caller_vars>>

Max(a, b) == IF a >= b THEN a ELSE b

\* ------------------------------------------------------------ RateLimiter

\* __init__: the limits dict with the None entries removed.
MakeLimits(cs, cm, ch, cd) ==
    LET args == [p \in {"second", "minute", "hour", "day"} |->
                    CASE p = "second" -> cs
                      [] p = "minute" -> cm
                      [] p = "hour" -> ch
                      [] p = "day" -> cd]
    IN  [p \in {q \in DOMAIN args : args[q] # None} |-> args[p]]

\* The test `len(self.call_history[period]) >= max_calls`, off by one.
SaturatedStrictly(current_calls, max_calls) == current_calls > max_calls

\* `len(self.call_history[period]) >= max_calls`: the window is saturated.
Saturated(current_calls, max_calls) == current_calls >= max_calls

\* The aggregation with the first saturated window's wait kept.
LongestWaitFirstWins(max_wait_time, wait) ==
    IF max_wait_time > 0 THEN max_wait_time ELSE wait

\* `max_wait_time = max(max_wait_time, wait_time)`
LongestWait(max_wait_time, wait) == Max(max_wait_time, wait)

\* The utilisation without the factor 100.
UtilizationNoPercent(current_calls, max_calls) == <<current_calls, max_calls>>

\* `current_calls / max_calls * 100`, kept as an exact fraction
\* <<numerator, denominator>> (max_calls is not 0 here).
Utilization(current_calls, max_calls) == <<current_calls * 100, max_calls>>

\* _clean_old_calls with `<=` for `<`: the call exactly window_seconds old is dropped.
RECURSIVE CleanOldCallsInclusive(_, _, _)
CleanOldCallsInclusive(dq, window_seconds, current_time) ==
    IF dq # <<>> /\ dq[1] <= current_time - window_seconds
    THEN CleanOldCallsInclusive(Tail(dq), window_seconds, current_time)
    ELSE dq

\* _clean_old_calls with `if` for `while`: at most one entry is dropped.
CleanOldCallsOnce(dq, window_seconds, current_time) ==
    IF dq # <<>> /\ dq[1] < current_time - window_seconds
    THEN Tail(dq)
    ELSE dq

\* _clean_old_calls on one deque: popleft while the head is older than the cutoff.
RECURSIVE CleanOldCalls(_, _, _)
CleanOldCalls(dq, window_seconds, current_time) ==
    IF dq # <<>> /\ dq[1] < current_time - window_seconds
    THEN CleanOldCalls(Tail(dq), window_seconds, current_time)
    ELSE dq

\* The loop of _check_rate_limit from the i-th period on.  raised: the
\* IndexError of call_history[period][0] on an empty deque.
RECURSIVE CheckLoop(_, _, _, _, _)
CheckLoop(i, hist, lim, current_time, max_wait_time) ==
    IF i > Len(PeriodOrder)
    THEN [raised |-> FALSE, hist |-> hist, max_wait_time |-> max_wait_time]
    ELSE LET period == PeriodOrder[i] IN
         IF period \notin DOMAIN lim
         THEN CheckLoop(i + 1, hist, lim, current_time, max_wait_time)
         ELSE LET cleaned == CleanOldCalls(hist[period], WindowSeconds(period), current_time)
                  hist2 == [hist EXCEPT ![period] = cleaned]
              IN  IF Saturated(Len(cleaned), lim[period])
                  THEN IF cleaned = <<>>
                       THEN [raised |-> TRUE, hist |-> hist2,
                             max_wait_time |-> max_wait_time]
                       ELSE CheckLoop(i + 1, hist2, lim, current_time,
                                LongestWait(max_wait_time,
                                    (cleaned[1] + WindowSeconds(period)) - current_time))
                  ELSE CheckLoop(i + 1, hist2, lim, current_time, max_wait_time)

\* _check_rate_limit: (can_proceed, wait_time), with the pruned history.
CheckRateLimit(hist, lim, current_time) ==
    LET r == CheckLoop(1, hist, lim, current_time, 0)
    IN  [raised |-> r.raised,
         hist |-> r.hist,
         can_proceed |-> ~r.raised /\ ~(r.max_wait_time > 0),
         wait_time |-> IF ~r.raised /\ r.max_wait_time > 0
                       THEN r.max_wait_time ELSE None]

\* _record_call appending to the 'second' deque alone.
RecordCallSecondOnly(hist, current_time) ==
    [p \in DOMAIN hist |->
        IF p = "second" THEN Append(hist[p], current_time) ELSE hist[p]]

\* _record_call: append the current time to every window's deque.
RecordCall(hist, current_time) ==
    [p \in DOMAIN hist |-> Append(hist[p], current_time)]

\* The loop of get_stats from the i-th period on.  raised: the
\* ZeroDivisionError of current_calls / max_calls.
RECURSIVE StatsLoop(_, _, _, _, _)
StatsLoop(i, hist, lim, current_time, acc) ==
    IF i > Len(PeriodOrder)
    THEN [raised |-> FALSE, hist |-> hist, stats |-> acc]
    ELSE LET period == PeriodOrder[i] IN
         IF period \notin DOMAIN lim
         THEN StatsLoop(i + 1, hist, lim, current_time, acc)
         ELSE LET cleaned == CleanOldCalls(hist[period], WindowSeconds(period), current_time)
                  hist2 == [hist EXCEPT ![period] = cleaned]
                  current_calls == Len(cleaned)
              IN  IF lim[period] = 0
                  THEN [raised |-> TRUE, hist |-> hist2, stats |-> acc]
                  ELSE StatsLoop(i + 1, hist2, lim, current_time,
                           acc @@ (period :> [current_calls |-> current_calls,
                                              max_calls |-> lim[period],
                                              utilization_pct |->
                                                  Utilization(current_calls, lim[period])]))

\* --------------------------------------------------------------- actions

Ops == {"acquire_blocking", "acquire_nonblocking", "get_stats", "reset"}

\* What `last` holds: ret is "True", "False", "None", "stats", the name of
\* the exception raised, or "sleeping" while a blocking acquire sleeps;
\* wait_time is the wait_time of the call's _check_rate_limit.
Outcome(t, o, r, w, s) ==
    [thread |-> t, op |-> o, ret |-> r, wait_time |-> w, stats |-> s]

\* What `vlast` holds before the first DataValidator call.
NoCall == [op |-> "none", args |-> <<>>, raised |-> "none", results |-> <<>>]

\* What `wrapper` holds before rate_limited is applied: state is where the
\* wrapper's call is, outcomes what each invocation of the wrapped function
\* did, failures the exceptions the except clause caught, sleeps the delays
\* it slept, result and raised how the call ended.
NoWrapper ==
    [state |-> "none", max_retries |-> 0, base_delay |-> 0, retry_count |-> 0,
     outcomes |-> <<>>, failures |-> <<>>, sleeps |-> <<>>,
     result |-> None, raised |-> None]

\* What `client` holds before a client is constructed.
NoClient == [state |-> "none"]

Init ==
    /\ constructed = FALSE
    /\ limits = <<>>
    /\ call_history = <<>>
    /\ lock = NoThread
    /\ now = 0
    /\ pc = [t \in Threads |-> "idle"]
    /\ wake_at = 0
    /\ last = Outcome(NoThread, "none", "none", None, <<>>)
    /\ issued = 0
    /\ ticks = 0
    /\ scope = [t \in Threads |-> "outside"]
    /\ scope_out = "none"
    /\ validator = FALSE
    /\ strict_mode = FALSE
    /\ validation_history = <<>>
    /\ vlast = NoCall
    /\ validations = 0
    /\ wrapper = NoWrapper
    /\ client = NoClient

\* RateLimiter(calls_per_second=cs, calls_per_minute=cm)
Construct(cs, cm) ==
    /\ ~constructed
    /\ constructed' = TRUE
    /\ limits' = MakeLimits(cs, cm, None, None)
    /\ call_history' = [p \in DOMAIN limits' |-> <<>>]
    /\ UNCHANGED <<lock, now, pc, wake_at, last, issued, ticks>>
    /\ UNCHANGED <<scope_vars, validator_vars, caller_vars>>

\* Time passes between two steps.
Tick(d) ==
    /\ constructed
    /\ ticks < MaxTicks
    /\ now' = now + d
    /\ ticks' = ticks + 1
    /\ UNCHANGED <<constructed, limits, call_history, lock, pc, wake_at, last, issued>>
    /\ UNCHANGED <<scope_vars, validator_vars, caller_vars>>

\* A thread calls acquire(blocking=True), acquire(blocking=False),
\* get_stats() or reset(), and comes to its `with self._lock`.
Call(t, o) ==
    /\ constructed
    /\ pc[t] = "idle"
    /\ issued < MaxCalls
    /\ issued' = issued + 1
    /\ pc' = [pc EXCEPT ![t] = o]
    /\ UNCHANGED <<constructed, limits, call_history, lock, now, wake_at, last, ticks>>
    /\ UNCHANGED <<scope_vars, validator_vars, caller_vars>>

\* acquire from taking the lock to its return, or to its time.sleep.
AcquireBody(t, blocking) ==
    LET r == CheckRateLimit(call_history, limits, now) IN
    IF r.raised
    THEN /\ call_history' = r.hist
         /\ last' = Outcome(t, pc[t], "IndexError", None, <<>>)
         /\ pc' = [pc EXCEPT ![t] = "idle"]
         /\ UNCHANGED <<lock, wake_at>>
    ELSE IF r.can_proceed
    THEN /\ call_history' = RecordCall(r.hist, now)
         /\ last' = Outcome(t, pc[t], "True", None, <<>>)
         /\ pc' = [pc EXCEPT ![t] = "idle"]
         /\ UNCHANGED <<lock, wake_at>>
    ELSE IF ~blocking
    THEN /\ call_history' = r.hist
         /\ last' = Outcome(t, pc[t], "False", r.wait_time, <<>>)
         /\ pc' = [pc EXCEPT ![t] = "idle"]
         /\ UNCHANGED <<lock, wake_at>>
    ELSE /\ call_history' = r.hist
         /\ last' = Outcome(t, pc[t], "sleeping", r.wait_time, <<>>)
         /\ lock' = t
         /\ pc' = [pc EXCEPT ![t] = "sleeping"]
         /\ wake_at' = now + r.wait_time + SleepBuffer

Acquire(t) ==
    /\ pc[t] \in {"acquire_blocking", "acquire_nonblocking"}
    /\ lock = NoThread
    /\ AcquireBody(t, pc[t] = "acquire_blocking")
    /\ UNCHANGED <<constructed, limits, now, issued, ticks>>
    /\ UNCHANGED <<scope_vars, validator_vars, caller_vars>>

\* The end of the sleep of a blocking acquire: the call is recorded and the
\* lock released.  The sleep lasts until wake_at, or longer.
AcquireWake(t) ==
    /\ pc[t] = "sleeping"
    /\ now' = Max(now, wake_at)
    /\ call_history' = RecordCall(call_history, now')
    /\ lock' = NoThread
    /\ wake_at' = 0
    /\ last' = Outcome(t, "acquire_blocking", "True", last.wait_time, <<>>)
    /\ pc' = [pc EXCEPT ![t] = "idle"]
    /\ UNCHANGED <<constructed, limits, issued, ticks>>
    /\ UNCHANGED <<scope_vars, validator_vars, caller_vars>>

GetStats(t) ==
    /\ pc[t] = "get_stats"
    /\ lock = NoThread
    /\ LET r == StatsLoop(1, call_history, limits, now, <<>>) IN
       /\ call_history' = r.hist
       /\ last' = IF r.raised
                  THEN Outcome(t, "get_stats", "ZeroDivisionError", None, <<>>)
                  ELSE Outcome(t, "get_stats", "stats", None, r.stats)
    /\ pc' = [pc EXCEPT ![t] = "idle"]
    /\ UNCHANGED <<constructed, limits, lock, now, wake_at, issued, ticks>>
    /\ UNCHANGED <<scope_vars, validator_vars, caller_vars>>

Reset(t) ==
    /\ pc[t] = "reset"
    /\ lock = NoThread
    /\ call_history' = [p \in DOMAIN call_history |-> <<>>]
    /\ last' = Outcome(t, "reset", "None", None, <<>>)
    /\ pc' = [pc EXCEPT ![t] = "idle"]
    /\ UNCHANGED <<constructed, limits, lock, now, wake_at, issued, ticks>>
    /\ UNCHANGED <<scope_vars, validator_vars, caller_vars>>

Next ==
    \/ \E cs, cm \in CeilingArgs : Construct(cs, cm)
    \/ \E d \in ClockSteps : Tick(d)
    \/ \E t \in Threads, o \in Ops : Call(t, o)
    \/ \E t \in Threads : Acquire(t)
    \/ \E t \in Threads : AcquireWake(t)
    \/ \E t \in Threads : GetStats(t)
    \/ \E t \in Threads : Reset(t)

Spec == Init /\ [][Next]_vars

\* One caller: the same operations, called by thread 1 alone.
SeqNext ==
    \/ \E cs, cm \in CeilingArgs : Construct(cs, cm)
    \/ \E d \in ClockSteps : Tick(d)
    \/ \E o \in Ops : Call(1, o)
    \/ Acquire(1)
    \/ AcquireWake(1)
    \/ GetStats(1)
    \/ Reset(1)

SeqSpec == Init /\ [][SeqNext]_vars

\* ------------------------------------------------- the limiter as a scope

\* __exit__ giving back the call of a request that failed.
ExitLimiterRefund(hist, failed) ==
    [hist |-> IF failed
              THEN [p \in DOMAIN hist |-> SubSeq(hist[p], 1, Len(hist[p]) - 1)]
              ELSE hist,
     suppress |-> FALSE]

\* __exit__(exc_type, exc_val, exc_tb): `return False`.  hist is the logs
\* it leaves, suppress what it returns: whether the exception of the wrapped
\* call is swallowed.
ExitLimiter(hist, failed) == [hist |-> hist, suppress |-> FALSE]

\* The steps of a `with limiter:` statement.  They say nothing about the
\* variables of the caller that wrote the statement (caller_vars): the
\* caller's own step does, or leaves them unchanged.

\* `with limiter:` -- __enter__ calls acquire(blocking=True) and comes to
\* its `with self._lock`.
Enter(t) ==
    /\ constructed
    /\ pc[t] = "idle"
    /\ scope[t] = "outside"
    /\ issued < MaxCalls
    /\ issued' = issued + 1
    /\ pc' = [pc EXCEPT ![t] = "acquire_blocking"]
    /\ scope' = [scope EXCEPT ![t] = "entering"]
    /\ UNCHANGED <<constructed, limits, call_history, lock, now, wake_at, last, ticks>>
    /\ UNCHANGED <<scope_out, validator_vars>>

\* The acquire of __enter__ raised: the statement ends with that exception,
\* the wrapped call and __exit__ do not run.
EnterFails(t) ==
    /\ scope[t] = "entering"
    /\ pc[t] = "idle"
    /\ last.thread = t
    /\ last.ret = "IndexError"
    /\ scope' = [scope EXCEPT ![t] = "outside"]
    /\ scope_out' = "enter_raised"
    /\ UNCHANGED <<limiter_vars, validator_vars>>

\* __enter__ returned: the wrapped call runs, and returns or raises.
Wrapped(t, raises) ==
    /\ scope[t] = "entering"
    /\ pc[t] = "idle"
    /\ last.thread = t
    /\ last.ret = "True"
    /\ scope' = [scope EXCEPT ![t] = IF raises THEN "raised" ELSE "returned"]
    /\ UNCHANGED <<limiter_vars, scope_out, validator_vars>>

\* __exit__ runs, without taking the lock.
Exit(t) ==
    /\ scope[t] \in {"returned", "raised"}
    /\ LET r == ExitLimiter(call_history, scope[t] = "raised") IN
       /\ call_history' = r.hist
       /\ scope_out' = IF scope[t] = "returned" THEN "completed"
                       ELSE IF r.suppress THEN "suppressed" ELSE "propagated"
    /\ scope' = [scope EXCEPT ![t] = "outside"]
    /\ UNCHANGED <<constructed, limits, lock, now, pc, wake_at, last, issued, ticks>>
    /\ UNCHANGED validator_vars

\* One caller that uses the limiter as a scope only.
ScopeNext ==
    \/ \E cs, cm \in CeilingArgs : Construct(cs, cm)
    \/ \E d \in ClockSteps : Tick(d)
    \/ Enter(1) /\ UNCHANGED caller_vars
    \/ Acquire(1)
    \/ AcquireWake(1)
    \/ EnterFails(1) /\ UNCHANGED caller_vars
    \/ \E raises \in BOOLEAN : Wrapped(1, raises) /\ UNCHANGED caller_vars
    \/ Exit(1) /\ UNCHANGED caller_vars

ScopeSpec == Init /\ [][ScopeNext]_vars

\* ---------------------------------------------------------- DataValidator
\* (src/src/data_ingestion/data_validator.py)

\* A Python value: None, a number, float('nan'), or a str.
NoneV == [kind |-> "none", num |-> 0, text |-> ""]
Num(n) == [kind |-> "num", num |-> n, text |-> ""]
NaNV == [kind |-> "nan", num |-> 0, text |-> ""]
Str(s) == [kind |-> "str", num |-> 0, text |-> s]

\* The strs float() converts, with the number each gives; float() raises
\* ValueError for every other str of the model ("abc", "", "2024-01-15").
TextAsFloat == ("45000" :> 45000)

\* The strs pd.to_datetime() parses as a calendar date, with the year of
\* each; "" gives NaT; every other str of the model raises.
TextAsYear == ("1999-12-31" :> 1999) @@ ("2024-01-15" :> 2024) @@ ("2999-01-01" :> 2999)

\* Whether float(value) returns rather than raises ValueError or TypeError.
ParsesAsFloat(value) ==
    \/ value.kind \in {"num", "nan"}
    \/ value.kind = "str" /\ value.text \in DOMAIN TextAsFloat

\* float(value), where it returns.
Float(value) ==
    IF value.kind = "str" THEN Num(TextAsFloat[value.text]) ELSE value

\* ValidationResult(is_valid, field_name, severity, message, invalid_values,
\* metadata).  message is the text without the values formatted into it;
\* <<>> stands for the None of invalid_values and of metadata.
ValidationResult(is_valid, field_name, severity, message, invalid_values, metadata) ==
    [is_valid |-> is_valid, field_name |-> field_name, severity |-> severity,
     message |-> message, invalid_values |-> invalid_values, metadata |-> metadata]

\* `field not in data` taking a field that holds None for an absent one.
AbsentOrNone(field, data) ==
    field \notin DOMAIN data \/ data[field].kind = "none"

\* `field not in data`
Absent(field, data) == field \notin DOMAIN data

\* _validate_required_fields: a list of one result.
ValidateRequiredFields(data, required_fields) ==
    LET IsMissing(field) == Absent(field, data)
        missing_fields == SelectSeq(required_fields, IsMissing)
        Names == [i \in 1 .. Len(missing_fields) |-> Str(missing_fields[i])]
    IN  IF missing_fields # <<>>
        THEN <<ValidationResult(FALSE, "required_fields", "error",
                                "Missing required fields", Names, <<>>)>>
        ELSE <<ValidationResult(TRUE, "required_fields", "info",
                                "All required fields present", <<>>, <<>>)>>

\* `numeric_value < min_value` with `<=` for `<`.
BelowMinInclusive(numeric_value, min_value) ==
    /\ min_value.kind # "none"
    /\ numeric_value.kind = "num"
    /\ numeric_value.num <= min_value.num

\* `min_value is not None and numeric_value < min_value` (no comparison
\* with nan is true).
BelowMin(numeric_value, min_value) ==
    /\ min_value.kind # "none"
    /\ numeric_value.kind = "num"
    /\ numeric_value.num < min_value.num

\* `max_value is not None and numeric_value > max_value`
AboveMax(numeric_value, max_value) ==
    /\ max_value.kind # "none"
    /\ numeric_value.kind = "num"
    /\ numeric_value.num > max_value.num

\* _validate_numeric_range
ValidateNumericRange(value, field_name, min_value, max_value, severity) ==
    IF value.kind = "none"
    THEN ValidationResult(FALSE, field_name, severity, "is None", <<>>, <<>>)
    ELSE IF ~ParsesAsFloat(value)
    THEN ValidationResult(FALSE, field_name, "error", "is not numeric", <<value>>, <<>>)
    ELSE LET numeric_value == Float(value) IN
         IF BelowMin(numeric_value, min_value)
         THEN ValidationResult(FALSE, field_name, severity, "below minimum",
                               <<numeric_value>>, <<>>)
         ELSE IF AboveMax(numeric_value, max_value)
         THEN ValidationResult(FALSE, field_name, severity, "above maximum",
                               <<numeric_value>>, <<>>)
         ELSE ValidationResult(TRUE, field_name, "info", "within valid range", <<>>, <<>>)

\* The year pd.Timestamp.now() falls in.
ThisYear == 2025

\* pd.Timestamp('2009-01-01')
GenesisYear == 2009

\* Whether pd.to_datetime(value) returns rather than raises.
ParsesAsDate(value) ==
    value.kind = "str" => value.text \in DOMAIN TextAsYear \cup {""}

\* The year of pd.to_datetime(value), or None for NaT (of nan and of "").
\* A number counts milliseconds (_validate_timestamp) or nanoseconds
\* (_validate_date_format) from 1970, which it does not leave in this model.
YearOf(value) ==
    CASE value.kind = "num" -> 1970
      [] value.kind = "str" /\ value.text # "" -> TextAsYear[value.text]
      [] OTHER -> None

\* _validate_timestamp (no comparison with NaT is true)
ValidateTimestamp(value, field_name) ==
    IF value.kind = "none"
    THEN ValidationResult(FALSE, field_name, "error", "is None", <<>>, <<>>)
    ELSE IF ~ParsesAsDate(value)
    THEN ValidationResult(FALSE, field_name, "error", "Invalid timestamp format",
                          <<value>>, <<>>)
    ELSE LET timestamp == YearOf(value) IN
         IF timestamp # None /\ timestamp > ThisYear
         THEN ValidationResult(FALSE, field_name, "warning", "is in the future", <<>>, <<>>)
         ELSE IF timestamp # None /\ timestamp < GenesisYear
         THEN ValidationResult(FALSE, field_name, "warning", "is suspiciously old", <<>>, <<>>)
         ELSE ValidationResult(TRUE, field_name, "info", "is valid", <<>>, <<>>)

\* _validate_date_format
ValidateDateFormat(value, field_name) ==
    IF value.kind = "none"
    THEN ValidationResult(FALSE, field_name, "error", "is None", <<>>, <<>>)
    ELSE IF ParsesAsDate(value)
    THEN ValidationResult(TRUE, field_name, "info", "has valid format", <<>>, <<>>)
    ELSE ValidationResult(FALSE, field_name, "error", "Invalid date format",
                          <<value>>, <<>>)

\* _validate_not_null with severity ERROR whatever it finds.
ValidateNotNullAlwaysError(value, field_name) ==
    LET is_valid == value.kind # "none" /\ value # Str("") IN
    ValidationResult(is_valid, field_name, "error",
                     IF is_valid THEN "is valid" ELSE "is null or empty", <<>>, <<>>)

\* _validate_not_null
ValidateNotNull(value, field_name) ==
    LET is_valid == value.kind # "none" /\ value # Str("") IN
    ValidationResult(is_valid, field_name, IF ~is_valid THEN "error" ELSE "info",
                     IF is_valid THEN "is valid" ELSE "is null or empty", <<>>, <<>>)

\* The loop of _log_and_store_results: whether it raises ValueError.
Raises(strict, results) ==
    \E i \in 1 .. Len(results) :
        \/ results[i].severity = "error" /\ strict /\ ~results[i].is_valid
        \/ results[i].severity = "critical" /\ strict

\* _log_and_store_results storing the batch after the loop: nothing is
\* stored when it raises.
LogAndStoreAfterLoop(history, strict, results) ==
    [history |-> IF Raises(strict, results) THEN history ELSE history \o results,
     raised |-> Raises(strict, results)]

\* _log_and_store_results: the history it leaves, and whether it raises.
LogAndStoreResults(history, strict, results) ==
    [history |-> history \o results, raised |-> Raises(strict, results)]

\* max_value of current_price.
PriceMax == 1000000

\* max_value of market_cap, 10 trillion, and of total_volume, 1 trillion.
\* The model counts these two fields in millions.
MarketCapMax == 10000000
TotalVolumeMax == 1000000

\* min_value and max_value of the percentage changes.
PctMin == 0 - 100
PctMax == 1000

\* The required_fields argument: a list, or None.
Fields(l) == [given |-> TRUE, fields |-> l]
NoFields == [given |-> FALSE, fields |-> <<>>]

\* The list validate_crypto_data takes for required_fields=None.
DefaultRequiredFields ==
    <<"id", "symbol", "name", "current_price", "market_cap", "total_volume">>

\* `if field in data: results.append(self._validate_numeric_range(...))`
RangeIfPresent(data, field, min_value, max_value, severity) ==
    IF field \in DOMAIN data
    THEN <<ValidateNumericRange(data[field], field, Num(min_value), Num(max_value), severity)>>
    ELSE <<>>

\* validate_crypto_data up to its call of _log_and_store_results.
CryptoResults(data, required_fields) ==
    ValidateRequiredFields(data, IF required_fields.given THEN required_fields.fields
                                 ELSE DefaultRequiredFields)
    \o RangeIfPresent(data, "current_price", 0, PriceMax, "error")
    \o RangeIfPresent(data, "market_cap", 0, MarketCapMax, "error")
    \o RangeIfPresent(data, "total_volume", 0, TotalVolumeMax, "error")
    \o RangeIfPresent(data, "price_change_percentage_24h", PctMin, PctMax, "error")
    \o RangeIfPresent(data, "price_change_percentage_7d", PctMin, PctMax, "error")
    \o (IF "last_updated" \in DOMAIN data
        THEN <<ValidateTimestamp(data["last_updated"], "last_updated")>>
        ELSE <<>>)

\* validate_macro_data up to its call of _log_and_store_results.
MacroResults(data, indicator_type) ==
    ValidateRequiredFields(data, <<"date", "value">>)
    \o (IF "date" \in DOMAIN data
        THEN <<ValidateDateFormat(data["date"], "date")>>
        ELSE <<>>)
    \o (IF "value" \in DOMAIN data
        THEN LET value == data["value"] IN
             <<CASE indicator_type = "inflation" ->
                      ValidateNumericRange(value, "value", Num(0 - 20), Num(50), "warning")
                 [] indicator_type = "interest_rate" ->
                      ValidateNumericRange(value, "value", Num(0 - 5), Num(25), "error")
                 [] indicator_type = "unemployment" ->
                      ValidateNumericRange(value, "value", Num(0), Num(30), "error")
                 [] OTHER -> ValidateNotNull(value, "value")>>
        ELSE <<>>)

\* A null entry of a DataFrame column (NaN, None, NaT).
NaN == 0 - 2

\* A DataFrame is [rows |-> len(df), cols |-> column name -> its entries,
\* numeric |-> whether the value column has a numeric dtype].

\* df.empty taken for `no column`.
IsEmptyNoColumn(df) == DOMAIN df.cols = {}

\* df.empty: any axis of length 0.
IsEmpty(df) == df.rows = 0 \/ DOMAIN df.cols = {}

\* `missing_pct < 10` with `<=` for `<`.
FewMissingInclusive(missing_values, rows) == missing_values * 100 <= 10 * rows

\* `missing_pct < 10`, for missing_pct = (missing_values / len(df)) * 100.
FewMissing(missing_values, rows) == missing_values * 100 < 10 * rows

\* `outlier_pct < 5` with `<=` for `<`.
FewOutliersInclusive(outlier_count, rows) == outlier_count * 100 <= 5 * rows

\* `outlier_pct < 5`, for outlier_pct = (len(outliers) / len(df)) * 100.
FewOutliers(outlier_count, rows) == outlier_count * 100 < 5 * rows

\* series.duplicated().sum(): the entries that repeat an earlier one.
Duplicated(series) ==
    Cardinality({i \in 1 .. Len(series) : \E j \in 1 .. (i - 1) : series[j] = series[i]})

\* series.is_monotonic_increasing
IsMonotonicIncreasing(series) ==
    \A i \in 1 .. Len(series) : \A j \in i .. Len(series) : series[i] <= series[j]

\* The entries of a series that are not null.
DropNa(series) ==
    LET NotNull(v) == v # NaN IN SelectSeq(series, NotNull)

\* The k-th smallest entry (k from 1) of a series without nulls.
KthSmallest(xs, k) ==
    CHOOSE v \in {xs[i] : i \in 1 .. Len(xs)} :
        /\ Cardinality({i \in 1 .. Len(xs) : xs[i] < v}) < k
        /\ Cardinality({i \in 1 .. Len(xs) : xs[i] <= v}) >= k

\* 4 * series.quantile(a / 4): nulls skipped, linear interpolation between
\* the two order statistics around position (a / 4) * (n - 1).
Quantile4(series, a) ==
    LET xs == DropNa(series)
        idx == a * (Len(xs) - 1)
        lo == idx \div 4
        r == idx % 4
    IN  IF r = 0
        THEN 4 * KthSmallest(xs, lo + 1)
        ELSE (4 - r) * KthSmallest(xs, lo + 1) + r * KthSmallest(xs, lo + 2)

\* _detect_outliers_iqr with multiplier 1.5: the entries below
\* Q1 - 1.5 * IQR or above Q3 + 1.5 * IQR, in the order of the series.  The
\* bounds are kept times 8; with no entry but nulls the quantiles are NaN
\* and no comparison is true.
DetectOutliersIQR(series) ==
    IF DropNa(series) = <<>>
    THEN <<>>
    ELSE LET Q1 == Quantile4(series, 1)
             Q3 == Quantile4(series, 3)
             IQR == Q3 - Q1
             lower_bound == 2 * Q1 - 3 * IQR
             upper_bound == 2 * Q3 + 3 * IQR
             IsOutlier(v) == v # NaN /\ (8 * v < lower_bound \/ 8 * v > upper_bound)
         IN  SelectSeq(series, IsOutlier)

\* outliers[:10] with the cap left out.
FirstTenUncapped(outliers) == [i \in 1 .. Len(outliers) |-> Num(outliers[i])]

\* outliers[:10]
FirstTen(outliers) ==
    [i \in 1 .. (IF Len(outliers) < 10 THEN Len(outliers) ELSE 10) |-> Num(outliers[i])]

\* validate_time_series from `# Check for missing values` to the outlier
\* check, for a table that holds the value column.  exit is "store" when
\* _log_and_store_results is reached and "KeyError" when df[timestamp_col]
\* raises (line 287) for want of the column.
TimeSeriesChecks(df, timestamp_col, value_col, found) ==
    LET values == df.cols[value_col]
        missing_values == Cardinality({i \in 1 .. Len(values) : values[i] = NaN})
        missing ==
            IF missing_values > 0
            THEN <<ValidationResult(FewMissing(missing_values, df.rows), value_col,
                       IF FewMissing(missing_values, df.rows) THEN "warning" ELSE "error",
                       "Found missing values", <<>>,
                       [missing_count |-> missing_values,
                        missing_percentage |-> <<missing_values * 100, df.rows>>])>>
            ELSE <<>>
    IN  IF timestamp_col \notin DOMAIN df.cols
        THEN [results |-> found \o missing, exit |-> "KeyError"]
        ELSE LET timestamps == df.cols[timestamp_col]
                 duplicates == Duplicated(timestamps)
                 is_sorted == IsMonotonicIncreasing(timestamps)
                 outliers == IF df.numeric THEN DetectOutliersIQR(values) ELSE <<>>
             IN  [results |->
                      found \o missing
                      \o (IF duplicates > 0
                          THEN <<ValidationResult(FALSE, timestamp_col, "warning",
                                     "Found duplicate timestamps", <<>>,
                                     [duplicate_count |-> duplicates])>>
                          ELSE <<>>)
                      \o <<ValidationResult(is_sorted, timestamp_col, "info",
                               IF is_sorted THEN "Time series is sorted"
                               ELSE "Time series is not sorted", <<>>, <<>>)>>
                      \o (IF Len(outliers) > 0
                          THEN <<ValidationResult(FewOutliers(Len(outliers), df.rows),
                                     value_col, "warning", "Detected outliers",
                                     FirstTen(outliers),
                                     [outlier_count |-> Len(outliers),
                                      outlier_percentage |->
                                          <<Len(outliers) * 100, df.rows>>])>>
                          ELSE <<>>),
                  exit |-> "store"]

\* validate_time_series up to its return, its call of
\* _log_and_store_results, or the exception of a check: exit is "return"
\* for the two early returns.
TimeSeriesResults(df, timestamp_col, value_col) ==
    IF IsEmpty(df)
    THEN [results |-> <<ValidationResult(FALSE, "dataframe", "error",
                                         "DataFrame is empty", <<>>, <<>>)>>,
          exit |-> "return"]
    ELSE LET no_timestamps ==
                 IF timestamp_col \notin DOMAIN df.cols
                 THEN <<ValidationResult(FALSE, timestamp_col, "error",
                                         "Timestamp column not found", <<>>, <<>>)>>
                 ELSE <<>>
         IN  IF value_col \notin DOMAIN df.cols
             THEN [results |-> no_timestamps
                                \o <<ValidationResult(FALSE, value_col, "error",
                                         "Value column not found", <<>>, <<>>)>>,
                   exit |-> "return"]
             ELSE TimeSeriesChecks(df, timestamp_col, value_col, no_timestamps)

\* ------------------------------------------------ DataValidator: inputs

\* All records that give some of the fields of FV a value, each field one
\* of the values FV lists for it.
RecordsOver(FV) ==
    UNION {{data \in [C -> UNION {FV[c] : c \in C}] : \A c \in C : data[c] \in FV[c]} :
              C \in SUBSET DOMAIN FV}

\* All lists of up to n elements of S.
ListsUpTo(S, n) == UNION {[1 .. k -> S] : k \in 0 .. n}

\* The values a numeric field is probed with around the range [0, top].
Probes(top) ==
    {NoneV, NaNV, Str("abc"), Str("45000"), Num(0 - 1), Num(0), Num(top), Num(top + 1)}

\* The records validate_crypto_data is called with.
CryptoRecords ==
    RecordsOver([id |-> {Str("bitcoin")},
                 current_price |-> Probes(PriceMax),
                 market_cap |-> {Num(5)},
                 price_change_percentage_24h |-> {Num(PctMin), Num(PctMin - 1)},
                 last_updated |-> {NoneV, Num(0), Str("abc"), Str("1999-12-31"),
                                   Str("2024-01-15"), Str("2999-01-01")}])

\* The required_fields validate_crypto_data is called with.
CryptoRequired == {NoFields, Fields(<<>>), Fields(<<"id", "current_price">>)}

\* The records and indicator types validate_macro_data is called with.
MacroRecords ==
    RecordsOver([date |-> {NoneV, Str("abc"), Str("2024-01-15")},
                 value |-> {NoneV, NaNV, Str(""), Str("abc"), Num(0 - 21), Num(0 - 20),
                            Num(0), Num(50), Num(51)}])

IndicatorTypes == {"inflation", "interest_rate", "unemployment", "gdp"}

\* The records and lists _validate_required_fields is called with.
FieldNames == {"id", "symbol", "current_price"}

PlainRecords == RecordsOver([f \in FieldNames |-> {NoneV, Str("bitcoin")}])

RequiredLists == ListsUpTo(FieldNames, MaxRequired)

\* The values, bounds and severities _validate_numeric_range is called with.
RangeValues ==
    {NoneV, NaNV, Str("abc"), Str("45000")} \cup {Num(n) : n \in (0 - 1) .. (RangeTop + 1)}

RangeBounds == {NoneV} \cup {Num(n) : n \in 0 .. RangeTop}

Severities == {"info", "warning", "error", "critical"}

\* The columns a table may hold, and what a row holds in each.
Columns == {"timestamp", "value", "date"}

TimeStamps == {1, 2}

ColumnValues == {NaN, 0, 9}

\* All tables of up to MaxRows rows; a table without value column has no
\* dtype to tell, and numeric is TRUE.
SmallTables ==
    UNION {{[rows |-> n,
             numeric |-> numeric \/ "value" \notin C,
             cols |-> [c \in C |-> CASE c = "timestamp" -> t
                                     [] c = "value" -> v
                                     [] OTHER -> [i \in 1 .. n |-> 0]]] :
               C \in SUBSET Columns, t \in [1 .. n -> TimeStamps],
               v \in [1 .. n -> ColumnValues], numeric \in BOOLEAN} :
              n \in 0 .. MaxRows}

\* A table of n rows with increasing timestamps whose value column holds
\* k nulls, then 10s, then m times 1000.
LongTable(n, k, m) ==
    [rows |-> n,
     numeric |-> TRUE,
     cols |-> [c \in {"timestamp", "value"} |->
                  IF c = "timestamp"
                  THEN [i \in 1 .. n |-> i]
                  ELSE [i \in 1 .. n |->
                           IF i <= k THEN NaN ELSE IF i > n - m THEN 1000 ELSE 10]]]

LongTables ==
    {LongTable(n, k, m) : n \in {10, 20, 21, LongRows}, k \in 0 .. MaxNulls,
                          m \in 0 .. MaxOutliers}

\* The series [10, 11, 9, 10, 12, 11, 10, 1000].
ExampleSeries == <<10, 11, 9, 10, 12, 11, 10, 1000>>

ExampleTable ==
    [rows |-> Len(ExampleSeries),
     numeric |-> TRUE,
     cols |-> [c \in {"timestamp", "value"} |->
                  IF c = "timestamp" THEN [i \in 1 .. Len(ExampleSeries) |-> i]
                  ELSE ExampleSeries]]

Tables == SmallTables \cup LongTables \cup {ExampleTable}

\* ----------------------------------------------- DataValidator: actions

\* What `vlast` holds after a call: raised is "none" when the call
\* returned results, else the exception; results is the list the call built.
Called(op, args, raised, results) ==
    [op |-> op, args |-> args, raised |-> raised, results |-> results]

\* DataValidator(strict_mode=strict)
NewValidator(strict) ==
    /\ ~validator
    /\ validator' = TRUE
    /\ strict_mode' = strict
    /\ validation_history' = <<>>
    /\ UNCHANGED <<vlast, validations>>
    /\ UNCHANGED <<limiter_vars, scope_vars, caller_vars>>

\* The end of a public validate_* call that reached _log_and_store_results.
StoreAndReturn(op, args, results) ==
    LET s == LogAndStoreResults(validation_history, strict_mode, results) IN
    /\ validation_history' = s.history
    /\ vlast' = Called(op, args, IF s.raised THEN "ValueError" ELSE "none", results)

ValidateCryptoData(data, required_fields) ==
    /\ validator
    /\ validations < MaxValidations
    /\ validations' = validations + 1
    /\ StoreAndReturn("validate_crypto_data",
                      [data |-> data, required_fields |-> required_fields],
                      CryptoResults(data, required_fields))
    /\ UNCHANGED <<validator, strict_mode>>
    /\ UNCHANGED <<limiter_vars, scope_vars, caller_vars>>

ValidateMacroData(data, indicator_type) ==
    /\ validator
    /\ validations < MaxValidations
    /\ validations' = validations + 1
    /\ StoreAndReturn("validate_macro_data",
                      [data |-> data, indicator_type |-> indicator_type],
                      MacroResults(data, indicator_type))
    /\ UNCHANGED <<validator, strict_mode>>
    /\ UNCHANGED <<limiter_vars, scope_vars, caller_vars>>

\* validate_time_series(df), with the default column names.
ValidateTimeSeries(df) ==
    /\ validator
    /\ validations < MaxValidations
    /\ validations' = validations + 1
    /\ LET r == TimeSeriesResults(df, "timestamp", "value") IN
       CASE r.exit = "store" ->
                StoreAndReturn("validate_time_series", [df |-> df], r.results)
         [] r.exit = "return" ->
                /\ vlast' = Called("validate_time_series", [df |-> df], "none", r.results)
                /\ UNCHANGED validation_history
         [] r.exit = "KeyError" ->
                /\ vlast' = Called("validate_time_series", [df |-> df], "KeyError", r.results)
                /\ UNCHANGED validation_history
    /\ UNCHANGED <<validator, strict_mode>>
    /\ UNCHANGED <<limiter_vars, scope_vars, caller_vars>>

\* _validate_required_fields(data, required_fields), called on its own.
CheckRequiredFields(data, required_fields) ==
    /\ validator
    /\ validations < MaxValidations
    /\ validations' = validations + 1
    /\ vlast' = Called("_validate_required_fields",
                       [data |-> data, required_fields |-> required_fields],
                       "none", ValidateRequiredFields(data, required_fields))
    /\ UNCHANGED <<validator, strict_mode, validation_history>>
    /\ UNCHANGED <<limiter_vars, scope_vars, caller_vars>>

\* _validate_numeric_range(value, 'value', min_value, max_value, severity),
\* called on its own.
CheckNumericRange(value, min_value, max_value, severity) ==
    /\ validator
    /\ validations < MaxValidations
    /\ validations' = validations + 1
    /\ vlast' = Called("_validate_numeric_range",
                       [value |-> value, min_value |-> min_value,
                        max_value |-> max_value, severity |-> severity],
                       "none",
                       <<ValidateNumericRange(value, "value", min_value, max_value, severity)>>)
    /\ UNCHANGED <<validator, strict_mode, validation_history>>
    /\ UNCHANGED <<limiter_vars, scope_vars, caller_vars>>

\* clear_history()
ClearHistory ==
    /\ validator
    /\ validations < MaxValidations
    /\ validations' = validations + 1
    /\ validation_history' = <<>>
    /\ vlast' = Called("clear_history", <<>>, "none", <<>>)
    /\ UNCHANGED <<validator, strict_mode>>
    /\ UNCHANGED <<limiter_vars, scope_vars, caller_vars>>

\* `passed` counting every result that is no ERROR.
CountNotError(history) ==
    Cardinality({i \in 1 .. Len(history) : history[i].severity # "error"})

\* `sum(1 for r in self.validation_history if r.is_valid)`
CountValid(history) ==
    Cardinality({i \in 1 .. Len(history) : history[i].is_valid})

\* get_validation_summary's result for a history; success_rate is kept as
\* the exact fraction <<numerator, denominator>>.
ValidationSummary(history) ==
    IF history = <<>>
    THEN [total_validations |-> 0]
    ELSE [total_validations |-> Len(history),
          passed |-> CountValid(history),
          failed |-> Cardinality({i \in 1 .. Len(history) : ~history[i].is_valid}),
          success_rate |-> <<CountValid(history) * 100, Len(history)>>,
          severity_breakdown |->
              [s \in Severities |->
                  Cardinality({i \in 1 .. Len(history) : history[i].severity = s})]]

\* get_validation_summary(): vlast.results holds the summary alone.
GetValidationSummary ==
    /\ validator
    /\ validations < MaxValidations
    /\ validations' = validations + 1
    /\ vlast' = Called("get_validation_summary", <<>>, "none",
                       <<ValidationSummary(validation_history)>>)
    /\ UNCHANGED <<validator, strict_mode, validation_history>>
    /\ UNCHANGED <<limiter_vars, scope_vars, caller_vars>>

\* A validator and the first call made on it, over all the inputs.
FirstCallNext ==
    \/ \E strict \in BOOLEAN : NewValidator(strict)
    \/ \E data \in CryptoRecords, required_fields \in CryptoRequired :
           validations = 0 /\ ValidateCryptoData(data, required_fields)
    \/ \E data \in MacroRecords, indicator_type \in IndicatorTypes :
           validations = 0 /\ ValidateMacroData(data, indicator_type)
    \/ \E df \in Tables : validations = 0 /\ ValidateTimeSeries(df)
    \/ \E data \in PlainRecords, required_fields \in RequiredLists :
           validations = 0 /\ CheckRequiredFields(data, required_fields)
    \/ \E value \in RangeValues, min_value \in RangeBounds, max_value \in RangeBounds,
          severity \in Severities :
           validations = 0 /\ CheckNumericRange(value, min_value, max_value, severity)

FirstCallSpec == Init /\ [][FirstCallNext]_vars

\* The records and tables a validator is called with again and again: for
\* each call, one input per way through it.
FewCryptoRecords ==
    {[id |-> Str("bitcoin")],
     [id |-> Str("bitcoin"), symbol |-> Str("btc"), name |-> Str("Bitcoin"),
      current_price |-> Num(45000), market_cap |-> Num(850000),
      total_volume |-> Num(25000)]}

FewMacroRecords ==
    {[date |-> Str("2024-01-15"), value |-> Num(51)],
     [date |-> Str("2024-01-15"), value |-> Num(3)]}

FewTables ==
    {t \in SmallTables :
        /\ t.numeric
        /\ t.rows \in {0, 2}
        /\ "date" \in DOMAIN t.cols
        /\ "timestamp" \in DOMAIN t.cols => t.cols["timestamp"] = <<1, 2>>
        /\ "value" \in DOMAIN t.cols => t.cols["value"] \in {<<0, 9>>, <<NaN, 9>>}}

\* A validator and the calls made on it, one after another.
HistoryNext ==
    \/ \E strict \in BOOLEAN : NewValidator(strict)
    \/ \E data \in FewCryptoRecords : ValidateCryptoData(data, NoFields)
    \/ \E data \in FewMacroRecords : ValidateMacroData(data, "inflation")
    \/ \E df \in FewTables : ValidateTimeSeries(df)
    \/ ClearHistory
    \/ GetValidationSummary

HistorySpec == Init /\ [][HistoryNext]_vars

\* ------------------------------------------------- the rate_limited wrapper

\* What the wrapped function does when it is invoked: it returns a value,
\* or raises an exception; both are numbered.
FuncOutcomes == [raises : BOOLEAN, value : {1, 2}]

\* The exception an acquire that fails is caught as (IndexError).
AcquireError == 0

\* The base_delay arguments, in ticks: no delay, or 0.3 s.
BaseDelays == {0, 3}

\* The delay growing from 2 * base_delay.
BackoffDelayFromTwo(base_delay, retry_count) == base_delay * (2 ^ retry_count)

\* `delay = base_delay * (2 ** (retry_count - 1))`
BackoffDelay(base_delay, retry_count) == base_delay * (2 ^ (retry_count - 1))

\* @rate_limited(calls_per_second=cs, max_retries=M, base_delay=d): the
\* limiter every call of the wrapper shares is constructed.
RateLimited(cs, M, d) ==
    /\ ~constructed
    /\ wrapper.state = "none"
    /\ constructed' = TRUE
    /\ limits' = MakeLimits(cs, None, None, None)
    /\ call_history' = [p \in DOMAIN limits' |-> <<>>]
    /\ wrapper' = [wrapper EXCEPT !.state = "idle", !.max_retries = M, !.base_delay = d]
    /\ UNCHANGED <<lock, now, pc, wake_at, last, issued, ticks>>
    /\ UNCHANGED <<scope_vars, validator_vars, client>>

\* wrapper(*args, **kwargs) is called: retry_count = 0, last_exception = None.
\* A call is made while the run has room for all its acquires.
WrapperCall ==
    /\ wrapper.state \in {"idle", "returned", "raised"}
    /\ issued + wrapper.max_retries + 1 <= MaxCalls
    /\ wrapper' = [wrapper EXCEPT !.state = "loop", !.retry_count = 0,
                                  !.outcomes = <<>>, !.failures = <<>>,
                                  !.sleeps = <<>>, !.result = None, !.raised = None]
    /\ UNCHANGED <<limiter_vars, scope_vars, validator_vars, client>>

\* `while retry_count <= max_retries:` holds, and `with limiter:` begins.
WrapperEnter ==
    /\ wrapper.state = "loop"
    /\ wrapper.retry_count <= wrapper.max_retries
    /\ Enter(1)
    /\ wrapper' = [wrapper EXCEPT !.state = "with"]
    /\ UNCHANGED client

\* `return func(*args, **kwargs)` inside the statement: func is invoked.
WrapperInvoke(outcome) ==
    /\ wrapper.state = "with"
    /\ Wrapped(1, outcome.raises)
    /\ wrapper' = [wrapper EXCEPT !.outcomes = Append(@, outcome)]
    /\ UNCHANGED client

\* func returned, __exit__ has run: the wrapper returns func's result.
WrapperReturn ==
    /\ wrapper.state = "with"
    /\ scope[1] = "outside"
    /\ scope_out = "completed"
    /\ wrapper' = [wrapper EXCEPT !.state = "returned",
                                  !.result = wrapper.outcomes[Len(wrapper.outcomes)].value]
    /\ UNCHANGED <<limiter_vars, scope_vars, validator_vars, client>>

\* `except Exception as e:` -- the acquire of __enter__ or func raised.  The
\* exception is re-raised once retry_count exceeds max_retries, else the
\* wrapper sleeps and loops.
WrapperExcept ==
    /\ wrapper.state = "with"
    /\ scope[1] = "outside"
    /\ scope_out \in {"propagated", "enter_raised"}
    /\ LET e == IF scope_out = "enter_raised" THEN AcquireError
                ELSE wrapper.outcomes[Len(wrapper.outcomes)].value
           retry_count == wrapper.retry_count + 1
           delay == BackoffDelay(wrapper.base_delay, retry_count)
       IN  IF retry_count > wrapper.max_retries
           THEN /\ wrapper' = [wrapper EXCEPT !.state = "raised",
                                              !.retry_count = retry_count,
                                              !.failures = Append(@, e),
                                              !.raised = e]
                /\ UNCHANGED now
           ELSE /\ wrapper' = [wrapper EXCEPT !.state = "loop",
                                              !.retry_count = retry_count,
                                              !.failures = Append(@, e),
                                              !.sleeps = Append(@, delay)]
                /\ now' = now + delay
    /\ UNCHANGED <<constructed, limits, call_history, lock, pc, wake_at, last, issued, ticks>>
    /\ UNCHANGED <<scope_vars, validator_vars, client>>

\* The loop ends without a pass (max_retries < 0): `if last_exception:` is
\* false and the wrapper returns None.
WrapperFallsThrough ==
    /\ wrapper.state = "loop"
    /\ wrapper.retry_count > wrapper.max_retries
    /\ wrapper' = [wrapper EXCEPT !.state = "returned", !.result = None]
    /\ UNCHANGED <<limiter_vars, scope_vars, validator_vars, client>>

\* One caller of one wrapped function.
WrapperNext ==
    \/ \E cs \in CeilingArgs, M \in (0 - 1) .. MaxRetries, d \in BaseDelays :
           RateLimited(cs, M, d)
    \/ WrapperCall
    \/ WrapperEnter
    \/ Acquire(1)
    \/ AcquireWake(1)
    \/ EnterFails(1) /\ UNCHANGED caller_vars
    \/ \E outcome \in FuncOutcomes : WrapperInvoke(outcome)
    \/ Exit(1) /\ UNCHANGED caller_vars
    \/ WrapperReturn
    \/ WrapperExcept
    \/ WrapperFallsThrough

\* The caller's thread runs on: every step of the wrapper that can be taken
\* is taken, and every sleep ends.
WrapperSpec == Init /\ [][WrapperNext]_vars /\ WF_vars(WrapperNext)

\* ------------------------------------------------------- the API clients

\* CoinGeckoClient and FREDClient.
Providers == {"coingecko", "fred"}

\* RATE_LIMIT_FREE, RATE_LIMIT_PRO and CALLS_PER_MINUTE, scaled down so that
\* a run saturates the 'minute' window: the calls-per-minute ceilings a
\* client is constructed with.
RateLimits == 1 .. MaxCeiling

\* `calls_per_hour=rate_limit * 60`, and CALLS_PER_DAY / CALLS_PER_MINUTE.
HourFactor == 60
DayFactor == 1000

\* The status codes the provider answers with.
Statuses == {200, 400, 401, 403, 429, 500}

\* Retry(status_forcelist=[429, 500, 502, 503, 504])
StatusForcelist == {429, 500, 502, 503, 504}

\* session.get through HTTPAdapter(max_retries=Retry(total=total, ...)) for
\* a provider that answers the i-th send with responses[i]: a status of the
\* forcelist is sent again while the retries last, and makes the transport
\* raise RetryError once they are used up; any other status is returned.
\* sends is the number of requests that went out.
RECURSIVE Urlopen(_, _, _)
Urlopen(responses, total, i) ==
    IF responses[i] \in StatusForcelist
    THEN IF i <= total
         THEN Urlopen(responses, total, i + 1)
         ELSE [sends |-> i, exception |-> "RetryError", status |-> responses[i]]
    ELSE [sends |-> i, exception |-> "none", status |-> responses[i]]

SessionGet(responses, total) == Urlopen(responses, total, 1)

\* The answers of the provider to the sends of one session.get: each send
\* but the last was answered with a status of the forcelist, and the last
\* one was too only when the retries were used up.
ResponsesFor(total) ==
    {r \in UNION {[1 .. n -> Statuses] : n \in 1 .. total + 1} :
        /\ \A i \in 1 .. Len(r) - 1 : r[i] \in StatusForcelist
        /\ r[Len(r)] \in StatusForcelist => Len(r) = total + 1}

\* The bodies of a 400 response: JSON with status.error_message, JSON
\* without it, and no JSON.
Bodies == {"structured", "no_message", "not_json"}

\* An exception a client raises.
ApiError(type, message) == [type |-> type, message |-> message]
NoError == ApiError("none", "none")

\* The try block of the 400 branch: what it raises.
BadRequestTry(body) ==
    IF body = "not_json"
    THEN ApiError("JSONDecodeError", "none")
    ELSE ApiError("CoinGeckoAPIError",
                  IF body = "structured" THEN "Bad request: provider's error_message"
                  ELSE "Bad request: Bad Request")

\* The bare `except:` of the 400 branch: it catches whatever the try block
\* raised, the CoinGeckoAPIError with the provider's message included.
BadRequestExcept(raised) ==
    ApiError("CoinGeckoAPIError", "Bad request - check API parameters")

\* CoinGeckoClient._make_request from the return of session.get to its own
\* return or raise.
CoinGeckoResponse(got, body) ==
    IF got.exception # "none"
    THEN ApiError("CoinGeckoAPIError", "Request failed")
    ELSE CASE got.status = 429 ->
                  ApiError("RateLimitError", "Rate limit exceeded, retry after")
           [] got.status = 401 ->
                  ApiError("CoinGeckoAPIError", "Invalid API key or authentication failed")
           [] got.status = 400 -> BadRequestExcept(BadRequestTry(body))
           [] got.status >= 400 -> ApiError("CoinGeckoAPIError", "Request failed")
           [] OTHER -> NoError

\* FREDClient._make_request from the return of session.get to its own
\* return or raise.
FredResponse(got, data) ==
    IF got.exception # "none" \/ got.status >= 400
    THEN ApiError("FREDAPIError", "Request failed")
    ELSE IF data.kind = "error_code"
    THEN ApiError("FREDAPIError", "API Error")
    ELSE NoError

\* The coins the provider describes: a sound one, and one with a negative
\* price.
GoodCoin ==
    [id |-> Str("bitcoin"), symbol |-> Str("btc"), name |-> Str("Bitcoin"),
     current_price |-> Num(45000), market_cap |-> Num(850000),
     total_volume |-> Num(25000), last_updated |-> Str("2024-01-15")]
BadCoin == [GoodCoin EXCEPT !.current_price = Num(0 - 1)]

\* A DataFrame with the columns 'date' and 'value'.
SeriesTable(dates, values) ==
    [rows |-> Len(dates), numeric |-> TRUE,
     cols |-> [c \in {"date", "value"} |-> IF c = "date" THEN dates ELSE values]]

\* What a 200 response holds, for each fetch: coins is what
\* validate_crypto_data is to see, table the observations as a DataFrame.
Payloads(op) ==
    CASE op = "get_coin_data" ->
             {[kind |-> "coin", market_data |-> m, coins |-> <<c>>] :
                 m \in BOOLEAN, c \in {GoodCoin, BadCoin}}
      [] op = "get_coin_market_data" ->
             {[kind |-> "markets", coins |-> cs] :
                 cs \in {<<>>, <<GoodCoin>>, <<BadCoin>>, <<BadCoin, GoodCoin>>}}
      [] op = "get_coin_history" -> {[kind |-> "document"]}
      [] op = "get_series" ->
             {[kind |-> "error_code"]}
             \cup {[kind |-> "observations", table |-> SeriesTable(d, v)] :
                      d \in {<<>>}, v \in {<<>>}}
             \cup {[kind |-> "observations", table |-> SeriesTable(d, v)] :
                      d \in {<<1, 2>>, <<1, 1>>}, v \in {<<0, 9>>, <<NaN, 9>>}}

\* The fetches of each client.
FetchOps(provider) ==
    IF provider = "coingecko"
    THEN {"get_coin_data", "get_coin_market_data", "get_coin_history"}
    ELSE {"get_series"}

NoData == [kind |-> "none"]

\* A validator that raises on ERROR findings.
StrictValidator == TRUE

\* `self.validator = DataValidator(strict_mode=False)`
ClientStrictMode == FALSE

\* CoinGeckoClient(max_retries=.., validate_data=..) and FREDClient(..):
\* the client's own limiter and validator are constructed.
NewClient(provider, rate_limit, max_retries, validate_data) ==
    /\ ~constructed
    /\ ~validator
    /\ client.state = "none"
    /\ constructed' = TRUE
    /\ limits' = IF provider = "coingecko"
                 THEN MakeLimits(None, rate_limit, rate_limit * HourFactor, None)
                 ELSE MakeLimits(None, rate_limit, None, rate_limit * DayFactor)
    /\ call_history' = [p \in DOMAIN limits' |-> <<>>]
    /\ validator' = TRUE
    /\ strict_mode' = ClientStrictMode
    /\ validation_history' = <<>>
    /\ client' = [state |-> "idle", provider |-> provider, max_retries |-> max_retries,
                  validate_data |-> validate_data, op |-> "none", fetches |-> 0,
                  gets |-> 0, call_gets |-> 0, sends |-> 0, status |-> None,
                  body |-> "none", error |-> NoError, data |-> NoData]
    /\ UNCHANGED <<lock, now, pc, wake_at, last, issued, ticks>>
    /\ UNCHANGED <<scope_vars, vlast, validations, wrapper>>

\* A fetch is called and comes, in _make_request, to `with self.rate_limiter:`.
ClientFetch(op) ==
    /\ client.state \in {"idle", "returned", "raised"}
    /\ client.fetches < MaxFetches
    /\ Enter(1)
    /\ client' = [client EXCEPT !.state = "requesting", !.op = op,
                                !.fetches = @ + 1, !.call_gets = 0, !.sends = 0,
                                !.status = None, !.body = "none",
                                !.error = NoError, !.data = NoData]
    /\ UNCHANGED wrapper

\* Inside the statement: session.get, and the checks of the response up to
\* `return response.json()` or a raise.
ClientGet(responses, body, data) ==
    /\ LET got == SessionGet(responses, client.max_retries)
           e == IF client.provider = "coingecko" THEN CoinGeckoResponse(got, body)
                ELSE FredResponse(got, data)
       IN  /\ Wrapped(1, e # NoError)
           /\ client' = [client EXCEPT !.state = "sent",
                                       !.gets = @ + 1, !.call_gets = @ + 1,
                                       !.sends = got.sends, !.status = got.status,
                                       !.body = IF got.status = 400 THEN body ELSE "none",
                                       !.error = e,
                                       !.data = IF e = NoError THEN data ELSE NoData]
    /\ UNCHANGED wrapper

\* __exit__, and the except clauses of _make_request: an exception leaves
\* the fetch, a result goes back to it.
ClientExit ==
    /\ client.state = "sent"
    /\ Exit(1)
    /\ client' = [client EXCEPT !.state = IF client.error # NoError THEN "raised"
                                          ELSE "fetched"]
    /\ UNCHANGED wrapper

\* validate_crypto_data called on each record of coins, one after another,
\* until one raises.
RECURSIVE ValidateEach(_, _, _, _)
ValidateEach(coins, i, history, strict) ==
    IF i > Len(coins)
    THEN [history |-> history, raised |-> FALSE, calls |-> Len(coins), results |-> <<>>]
    ELSE LET results == CryptoResults(coins[i], NoFields)
             s == LogAndStoreResults(history, strict, results)
         IN  IF s.raised
             THEN [history |-> s.history, raised |-> TRUE, calls |-> i, results |-> results]
             ELSE IF i = Len(coins)
             THEN [history |-> s.history, raised |-> FALSE, calls |-> i, results |-> results]
             ELSE ValidateEach(coins, i + 1, s.history, strict)

\* The records of a response that the fetch hands to validate_crypto_data.
RecordsToValidate(validate_data, data) ==
    CASE ~validate_data -> <<>>
      [] data.kind = "coin" -> IF data.market_data THEN data.coins ELSE <<>>
      [] data.kind = "markets" -> data.coins
      [] OTHER -> <<>>

\* The rest of get_coin_data, get_coin_market_data and get_coin_history
\* after _make_request returned.
CoinGeckoValidate ==
    /\ client.provider = "coingecko"
    /\ LET coins == RecordsToValidate(client.validate_data, client.data)
           v == ValidateEach(coins, 1, validation_history, strict_mode)
       IN  /\ validation_history' = v.history
           /\ validations' = validations + v.calls
           /\ vlast' = IF v.calls = 0 THEN vlast
                       ELSE Called("validate_crypto_data",
                                   [data |-> coins[v.calls], required_fields |-> NoFields],
                                   IF v.raised THEN "ValueError" ELSE "none", v.results)
           /\ client' = [client EXCEPT !.state = IF v.raised THEN "raised" ELSE "returned",
                                       !.error = IF v.raised
                                                 THEN ApiError("ValueError", "Validation failed")
                                                 ELSE NoError]

\* The rest of get_series after _make_request returned.
FredValidate ==
    /\ client.provider = "fred"
    /\ IF client.data.table.rows = 0 \/ ~client.validate_data
       THEN /\ client' = [client EXCEPT !.state = "returned"]
            /\ UNCHANGED <<validation_history, validations, vlast>>
       ELSE LET df == client.data.table
                r == TimeSeriesResults(df, "date", "value")
                s == LogAndStoreResults(validation_history, strict_mode, r.results)
                raised == CASE r.exit = "KeyError" -> "KeyError"
                            [] r.exit = "store" /\ s.raised -> "ValueError"
                            [] OTHER -> "none"
            IN  /\ validation_history' = IF r.exit = "store" THEN s.history
                                         ELSE validation_history
                /\ validations' = validations + 1
                /\ vlast' = Called("validate_time_series", [df |-> df], raised, r.results)
                /\ client' = [client EXCEPT
                                 !.state = IF raised = "none" THEN "returned" ELSE "raised",
                                 !.error = IF raised = "none" THEN NoError
                                           ELSE ApiError(raised, "Validation failed")]

ClientValidate ==
    /\ client.state = "fetched"
    /\ \/ CoinGeckoValidate
       \/ FredValidate
    /\ UNCHANGED <<validator, strict_mode, wrapper>>
    /\ UNCHANGED <<limiter_vars, scope_vars>>

\* One client, and the fetches its one caller makes one after another.
ClientNext ==
    \/ \E provider \in Providers, rate_limit \in RateLimits,
          max_retries \in 0 .. MaxRetries, validate_data \in BOOLEAN :
           NewClient(provider, rate_limit, max_retries, validate_data)
    \/ /\ client.state # "none"
       /\ \E op \in FetchOps(client.provider) : ClientFetch(op)
    \/ Acquire(1)
    \/ AcquireWake(1)
    \/ /\ client.state = "requesting"
       /\ \E responses \in ResponsesFor(client.max_retries),
             data \in Payloads(client.op) :
              \E body \in IF responses[Len(responses)] = 400 THEN Bodies ELSE {"none"} :
                  ClientGet(responses, body, data)
    \/ ClientExit
    \/ ClientValidate

ClientSpec == Init /\ [][ClientNext]_vars

\* ---------------------------------------------------------------- claims

\* Every configured ceiling is a positive integer, as the data model of the
\* specification requires of a limiter.
AllPositive == \A p \in DOMAIN limits : limits[p] > 0

\* The entries of a deque that lie within the trailing window at time t,
\* the entry that is exactly window_seconds old included (the code keeps it).
Live(dq, period, t) ==
    LET Kept(e) == e >= t - WindowSeconds(period) IN SelectSeq(dq, Kept)

\* The number of entries of a deque made strictly less than window_seconds
\* before time t.
CallsWithin(dq, period, t) ==
    Cardinality({i \in 1 .. Len(dq) : dq[i] > t - WindowSeconds(period)})

IsAcquire(o) == o \in {"acquire_blocking", "acquire_nonblocking"}

\* C1: for every configured window and at every time, the number of recorded
\* calls whose timestamps lie within the trailing window_duration is at most
\* the window's max_calls.  (Stated for the half-open window, which leaves
\* out the call that is exactly window_duration old.)
C1_QuotaNeverExceeded ==
    constructed =>
        \A p \in DOMAIN limits :
            limits[p] > 0 => CallsWithin(call_history[p], p, now) <= limits[p]

\* C2: immediately after any acquire() that returns true, the length of
\* call_history[window] is at most max_calls, for every configured window.
C2_LengthAtMostCeilingAfterAcquire ==
    (IsAcquire(last.op) /\ last.ret = "True") =>
        \A p \in DOMAIN limits :
            limits[p] > 0 => Len(call_history[p]) <= limits[p]

\* C3: the lock is not held across the sleep of a blocking acquire: while
\* one caller sleeps, another thread that has called acquire(), get_stats()
\* or reset() finds the lock free.
C3_LockFreeDuringSleep ==
    \A t, u \in Threads :
        (pc[t] = "sleeping" /\ pc[u] \in Ops) => lock = NoThread

\* C4: a blocking acquire that had to wait records its call only if no
\* window is saturated at the moment it wakes: the entries that are left
\* after pruning at the recorded instant, the new one apart, number less
\* than max_calls.
C4_RecordsOnlyIfUnsaturatedOnWake ==
    (last.op = "acquire_blocking" /\ last.ret = "True" /\ last.wait_time # None
        /\ AllPositive) =>
        \A p \in DOMAIN limits :
            LET h == call_history[p]
                recorded == h[Len(h)]
                earlier == SubSeq(h, 1, Len(h) - 1)
            IN  Len(Live(earlier, p, recorded)) < limits[p]

\* The step in which the non-blocking acquire of thread t returns False.
NonBlockingRefused(t) ==
    /\ pc[t] = "acquire_nonblocking"
    /\ pc'[t] = "idle"
    /\ last'.ret = "False"

\* C5 as stated: acquire(blocking=False) that returns False leaves every
\* window's log the same as before the call.
C5_RefusalLeavesLogsUnchanged ==
    [][\A t \in Threads : NonBlockingRefused(t) => call_history' = call_history]_vars

\* C5, amended: acquire(blocking=False) that returns False does not sleep
\* (the clock stands still and the lock is free on return), appends no
\* timestamp, and changes a window's log only by removing the entries older
\* than the window.
C5_RefusalOnlyPrunes ==
    [][\A t \in Threads :
          NonBlockingRefused(t) =>
              /\ now' = now
              /\ lock' = NoThread
              /\ \A u \in Threads : pc'[u] # "sleeping"
              /\ DOMAIN call_history' = DOMAIN call_history
              /\ \A p \in DOMAIN call_history :
                     call_history'[p] = Live(call_history[p], p, now)]_vars

\* A non-blocking acquire was refused while both windows are configured.
C5_Witness ==
    /\ last.op = "acquire_nonblocking"
    /\ last.ret = "False"
    /\ DOMAIN limits = {"second", "minute"}

\* C6: on a limiter with a single window of ceiling N >= 1 whose log holds
\* only calls made at this instant (none on a fresh limiter), a non-blocking
\* acquire returns True when fewer than N calls are logged and False
\* otherwise: of a run of acquires at one instant the first N return True
\* and every later one False.
C6_FirstNThenRefused ==
    [][\A t \in Threads, p \in DOMAIN limits :
          (/\ pc[t] = "acquire_nonblocking"
           /\ pc'[t] = "idle"
           /\ DOMAIN limits = {p}
           /\ limits[p] >= 1
           /\ \A i \in 1 .. Len(call_history[p]) : call_history[p][i] = now)
          => /\ last'.ret = IF Len(call_history[p]) < limits[p] THEN "True" ELSE "False"
             /\ call_history'[p] =
                    IF Len(call_history[p]) < limits[p]
                    THEN Append(call_history[p], now)
                    ELSE call_history[p]]_vars

\* calls_per_minute=2, three acquires at the instant of construction: the
\* third is refused and two calls are logged.
C6_Witness ==
    /\ limits = ("minute" :> 2)
    /\ issued = 3
    /\ now = 0
    /\ \A t \in Threads : pc[t] = "idle"
    /\ last.op = "acquire_nonblocking"
    /\ last.ret = "False"
    /\ call_history["minute"] = <<0, 0>>

\* The threads call nothing but acquire(blocking=True), back to back: the
\* clock advances across the sleeps alone.
BlockingNext ==
    \/ \E cs, cm \in CeilingArgs : Construct(cs, cm)
    \/ \E t \in Threads : Call(t, "acquire_blocking")
    \/ \E t \in Threads : Acquire(t)
    \/ \E t \in Threads : AcquireWake(t)

\* A thread that waits for the lock gets it once it stays free, and every
\* sleep ends.
Fairness ==
    /\ \A t \in Threads : WF_vars(Acquire(t))
    /\ WF_vars(\E t \in Threads : AcquireWake(t))

FairSpec == Init /\ [][BlockingNext]_vars /\ Fairness

\* The step in which the blocking acquire of thread t returns.
BlockingReturns(t) ==
    /\ pc[t] \in {"acquire_blocking", "sleeping"}
    /\ pc'[t] = "idle"

\* C7: on a limiter whose ceilings are all positive, every
\* acquire(blocking=True) eventually returns True, and on its return every
\* configured window's log is what was left of it followed by exactly one new
\* timestamp, the time of the return.
C7_BlockingAcquireReturnsTrue ==
    /\ \A t \in Threads :
           (pc[t] = "acquire_blocking" /\ AllPositive)
               ~> (pc[t] = "idle" /\ last.thread = t
                   /\ last.op = "acquire_blocking" /\ last.ret = "True")
    /\ [][\A t \in Threads :
             (BlockingReturns(t) /\ AllPositive) =>
                 /\ last'.ret = "True"
                 /\ DOMAIN call_history' = DOMAIN limits
                 /\ \A p \in DOMAIN limits :
                        \E k \in 0 .. Len(call_history[p]) :
                            call_history'[p] =
                                Append(SubSeq(call_history[p], k + 1,
                                              Len(call_history[p])), now')]_vars

\* A blocking acquire that had to sleep has returned True.
C7_Witness ==
    /\ AllPositive
    /\ last.op = "acquire_blocking"
    /\ last.ret = "True"
    /\ last.wait_time # None
    /\ now >= WindowSeconds("second") + SleepBuffer

\* The step in which thread t runs the quota check of its acquire.
QuotaChecked(t) ==
    /\ IsAcquire(pc[t])
    /\ pc'[t] # pc[t]

\* The windows that are saturated once the entries older than the window
\* are gone.
SaturatedWindows ==
    {p \in DOMAIN limits : Len(Live(call_history[p], p, now)) >= limits[p]}

\* The wait a saturated window asks for: until its oldest call is
\* window_seconds old.
WindowWait(p) == (Live(call_history[p], p, now)[1] + WindowSeconds(p)) - now

StatsTaken(t) ==
    /\ pc[t] = "get_stats"
    /\ pc'[t] = "idle"

C8_ConstructionRejectsNonPositive ==
    /\ constructed => AllPositive
    /\ last.ret # "IndexError"

\* The step in which thread t prunes the logs: its get_stats, or the quota
\* check of its acquire.
Pruned(t) == StatsTaken(t) \/ QuotaChecked(t)

\* C11: pruning is idempotent: on every log a get_stats or a quota check
\* meets, pruning the window twice at one instant gives what pruning it once
\* gives, and the logs the call leaves are left as they are by pruning them
\* again at that instant, through get_stats or through the quota check.
C11_PruningIsIdempotent ==
    [][\A t \in Threads :
          Pruned(t) =>
              /\ \A p \in DOMAIN call_history :
                     LET once == CleanOldCalls(call_history[p], WindowSeconds(p), now)
                     IN  /\ CleanOldCalls(once, WindowSeconds(p), now) = once
                         /\ \A e \in 1 .. Len(once) : once[e] >= now - WindowSeconds(p)
              /\ StatsLoop(1, call_history', limits, now', <<>>).hist = call_history'
              /\ CheckRateLimit(call_history', limits, now').hist = call_history']_vars

\* get_stats pruned both calls out of the 'second' window, which the
\* 'minute' window still holds.
C11_Witness ==
    /\ last.op = "get_stats"
    /\ last.ret = "stats"
    /\ DOMAIN limits = {"second", "minute"}
    /\ last.stats["second"].current_calls = 0
    /\ last.stats["minute"].current_calls = 2

\* The step in which the __exit__ of thread t runs.
Exited(t) ==
    /\ scope[t] \in {"returned", "raised"}
    /\ scope'[t] = "outside"

\* C12: __exit__ does nothing additional: it adds no entry to and removes no
\* entry from any window's log, whether the wrapped call returned or raised,
\* so the call that __enter__ recorded still stands in every window's log,
\* and an exception of the wrapped call propagates.
C12_ExitDoesNothing ==
    [][\A t \in Threads :
          Exited(t) =>
              /\ call_history' = call_history
              /\ \A p \in DOMAIN limits :
                     /\ call_history'[p] # <<>>
                     /\ call_history'[p][Len(call_history'[p])] <= now
              /\ UNCHANGED <<limits, lock, now, pc, wake_at, last>>
              /\ scope_out' = IF scope[t] = "raised" THEN "propagated" ELSE "completed"]_vars

\* A wrapped call raised under a limiter with both windows, and the
\* exception left the scope with the request still in both logs.
C12_Witness ==
    /\ scope_out = "propagated"
    /\ DOMAIN limits = {"second", "minute"}
    /\ \A p \in DOMAIN limits : call_history[p] # <<>>
    /\ \A t \in Threads : scope[t] = "outside"

\* The three public validation calls.
ValidateOps == {"validate_crypto_data", "validate_macro_data", "validate_time_series"}

\* The findings of the latest call that carry the message m.
FindingsWith(m) ==
    LET Carries(r) == r.message = m IN SelectSeq(vlast.results, Carries)

\* The latest call was validate_time_series on a table with at least one
\* row that holds the timestamp and the value column.
SeriesChecked ==
    /\ vlast.op = "validate_time_series"
    /\ vlast.args.df.rows > 0
    /\ {"timestamp", "value"} \subseteq DOMAIN vlast.args.df.cols

\* C13: in strict mode a validate_crypto_data, validate_macro_data or
\* validate_time_series call whose findings include an ERROR-severity result
\* raises instead of returning, on every path of validate_time_series, the
\* early returns for an empty table and for a missing value column included.
C13_StrictRaisesOnError ==
    (/\ strict_mode
     /\ vlast.op \in ValidateOps
     /\ \E i \in 1 .. Len(vlast.results) : vlast.results[i].severity = "error")
        => vlast.raised # "none"

\* The step in which a validate_* call returns its result list.
ValidationReturned ==
    /\ validations' = validations + 1
    /\ vlast'.op \in ValidateOps
    /\ vlast'.raised = "none"

\* C14: in permissive mode, after a validate_* call that returns the list R,
\* validation_history is its previous value followed by R, and
\* validation_history gets shorter by clear_history() alone.
C14_HistoryExtendedByReturn ==
    [][/\ (~strict_mode /\ ValidationReturned)
              => validation_history' = validation_history \o vlast'.results
       /\ Len(validation_history') < Len(validation_history)
              => vlast'.op = "clear_history"]_vars

\* C15: in permissive mode validate_time_series never raises, and for a
\* table with rows that lacks the timestamp column but has the value column
\* its findings hold one ERROR result for the timestamp column.
C15_PermissiveSeriesNeverRaises ==
    (~strict_mode /\ vlast.op = "validate_time_series") =>
        /\ vlast.raised = "none"
        /\ (/\ vlast.args.df.rows > 0
            /\ "timestamp" \notin DOMAIN vlast.args.df.cols
            /\ "value" \in DOMAIN vlast.args.df.cols)
               => Cardinality({i \in 1 .. Len(vlast.results) :
                                   /\ vlast.results[i].severity = "error"
                                   /\ vlast.results[i].field_name = "timestamp"}) = 1

NullCount ==
    LET values == vlast.args.df.cols["value"] IN
    Cardinality({i \in 1 .. Len(values) : values[i] = NaN})

\* C17: for a table with rows and both columns in which k > 0 of the n
\* value rows are null, the findings of validate_time_series hold exactly
\* one missing-value finding; it carries the count k and the percentage
\* k / n * 100, and it is valid with severity WARNING when k / n < 10% and
\* invalid with severity ERROR when k / n >= 10%.  A permissive validator
\* returns the findings.
C17_MissingValueFinding ==
    (SeriesChecked /\ NullCount > 0) =>
        LET found == FindingsWith("Found missing values")
            k == NullCount
            n == vlast.args.df.rows
        IN  /\ Len(found) = 1
            /\ found[1].metadata.missing_count = k
            /\ found[1].metadata.missing_percentage[1] * n
                   = (k * 100) * found[1].metadata.missing_percentage[2]
            /\ found[1].metadata.missing_percentage[2] # 0
            /\ found[1].is_valid = (10 * k < n)
            /\ found[1].severity = IF 10 * k < n THEN "warning" ELSE "error"
            /\ found[1].field_name = "value"
            /\ ~strict_mode => vlast.raised = "none"

\* 2 of 20 value rows are null, exactly 10%: the finding is an ERROR.
C17_Witness ==
    /\ SeriesChecked
    /\ vlast.args.df.rows = 20
    /\ NullCount = 2
    /\ FindingsWith("Found missing values")[1].severity = "error"
    /\ ~strict_mode

\* The values of the latest table's value column that lie outside
\* [Q1 - 1.5 * IQR, Q3 + 1.5 * IQR], in the order of the rows.
OutsideFences ==
    LET values == vlast.args.df.cols["value"]
        Q1 == Quantile4(values, 1)
        Q3 == Quantile4(values, 3)
        Outside(v) ==
            /\ v # NaN
            /\ \/ 8 * v < 2 * Q1 - 3 * (Q3 - Q1)
               \/ 8 * v > 2 * Q3 + 3 * (Q3 - Q1)
    IN  IF \A i \in 1 .. Len(values) : values[i] = NaN
        THEN <<>>
        ELSE SelectSeq(values, Outside)

\* C18: for a numeric value column, when at least one value lies outside
\* [Q1 - 1.5 * IQR, Q3 + 1.5 * IQR] the findings of validate_time_series
\* hold exactly one outlier finding: its severity is WARNING, it is valid
\* exactly when outliers / rows < 5%, and its invalid_values are the first
\* 10 outliers, or all when there are fewer; with no such value there is no
\* outlier finding.  For [10, 11, 9, 10, 12, 11, 10, 1000] the finding
\* lists 1000 alone and is invalid.
C18_OutlierFinding ==
    (SeriesChecked /\ vlast.args.df.numeric) =>
        LET found == FindingsWith("Detected outliers")
            outside == OutsideFences
            n == vlast.args.df.rows
        IN  /\ Len(found) = IF Len(outside) > 0 THEN 1 ELSE 0
            /\ Len(outside) > 0 =>
                   /\ found[1].severity = "warning"
                   /\ found[1].is_valid = (20 * Len(outside) < n)
                   /\ Len(found[1].invalid_values) <= 10
                   /\ Len(found[1].invalid_values)
                          = IF Len(outside) <= 10 THEN Len(outside) ELSE 10
                   /\ \A i \in 1 .. Len(found[1].invalid_values) :
                          found[1].invalid_values[i] = Num(outside[i])
                   /\ found[1].metadata.outlier_count = Len(outside)
            /\ vlast.args.df.cols["value"] = ExampleSeries =>
                   /\ found[1].invalid_values = <<Num(1000)>>
                   /\ found[1].is_valid = FALSE

\* Eleven values lie outside the fences and the finding lists ten of them.
C18_Witness ==
    /\ SeriesChecked
    /\ vlast.args.df.numeric
    /\ Len(OutsideFences) = 11
    /\ Len(FindingsWith("Detected outliers")[1].invalid_values) = 10

\* The positions of the required fields that the record of the latest call
\* does not hold.
AbsentAt ==
    {i \in 1 .. Len(vlast.args.required_fields) :
        vlast.args.required_fields[i] \notin DOMAIN vlast.args.data}

\* C19: _validate_required_fields yields exactly one result: when some
\* required fields are absent, an ERROR result with is_valid false whose
\* invalid_values lists all and only the absent fields in the order of
\* required_fields; when none is absent, an INFO result with is_valid true.
C19_RequiredFieldsSingleResult ==
    vlast.op = "_validate_required_fields" =>
        LET r == vlast.results[1]
            required == vlast.args.required_fields
        IN  /\ Len(vlast.results) = 1
            /\ vlast.raised = "none"
            /\ AbsentAt # {} =>
                   /\ r.severity = "error"
                   /\ r.is_valid = FALSE
                   /\ Len(r.invalid_values) = Cardinality(AbsentAt)
                   /\ \A i \in AbsentAt :
                          r.invalid_values[Cardinality({j \in AbsentAt : j <= i})]
                              = Str(required[i])
            /\ AbsentAt = {} =>
                   /\ r.severity = "info"
                   /\ r.is_valid = TRUE
                   /\ r.invalid_values = <<>>

\* The record {id: 'bitcoin'} against ['id', 'current_price']: one ERROR
\* that lists current_price.
C19_Witness ==
    /\ vlast.op = "_validate_required_fields"
    /\ vlast.args.data = [id |-> Str("bitcoin")]
    /\ vlast.args.required_fields = <<"id", "current_price">>
    /\ vlast.results[1].severity = "error"
    /\ vlast.results[1].invalid_values = <<Str("current_price")>>

\* C20: _validate_numeric_range with the rule (min, max, severity) returns
\* exactly one result: None fails at the configured severity; a value that
\* is not a number (a str float() does not convert) fails at severity ERROR;
\* a number below min or above max fails at the configured severity; every
\* other value, min and max themselves included, passes with severity INFO.
C20_NumericRangeSingleResult ==
    vlast.op = "_validate_numeric_range" =>
        LET r == vlast.results[1]
            a == vlast.args
            number == IF a.value.kind = "str" THEN TextAsFloat[a.value.text]
                      ELSE a.value.num
            out_of_range ==
                /\ a.value.kind # "nan"
                /\ \/ a.min_value # NoneV /\ number < a.min_value.num
                   \/ a.max_value # NoneV /\ number > a.max_value.num
        IN  /\ Len(vlast.results) = 1
            /\ vlast.raised = "none"
            /\ CASE a.value = NoneV ->
                        r.is_valid = FALSE /\ r.severity = a.severity
                 [] a.value.kind = "str" /\ a.value.text \notin DOMAIN TextAsFloat ->
                        r.is_valid = FALSE /\ r.severity = "error"
                 [] OTHER ->
                        IF out_of_range
                        THEN r.is_valid = FALSE /\ r.severity = a.severity
                        ELSE r.is_valid = TRUE /\ r.severity = "info"

\* A value equal to min passed a rule of severity WARNING with INFO.
C20_Witness ==
    /\ vlast.op = "_validate_numeric_range"
    /\ vlast.args.value = Num(0)
    /\ vlast.args.min_value = Num(0)
    /\ vlast.args.max_value = Num(RangeTop)
    /\ vlast.args.severity = "warning"
    /\ vlast.results[1].is_valid
    /\ vlast.results[1].severity = "info"

\* C21: get_validation_summary() on an empty history returns exactly
\* {total_validations: 0}; on a non-empty history, which it leaves as it
\* is, total_validations is the length of the history and equals passed +
\* failed, passed counts the valid results, the severity_breakdown counts
\* sum to total_validations, and success_rate is passed / total * 100.
C21_SummaryOfWholeHistory ==
    vlast.op = "get_validation_summary" =>
        LET s == vlast.results[1]
            h == validation_history
        IN  /\ vlast.raised = "none"
            /\ h = <<>> => s = [total_validations |-> 0]
            /\ h # <<>> =>
                   /\ s.total_validations = Len(h)
                   /\ s.passed + s.failed = s.total_validations
                   /\ s.passed = Len(SelectSeq(h, LAMBDA r : r.is_valid))
                   /\ s.severity_breakdown["info"] + s.severity_breakdown["warning"]
                          + s.severity_breakdown["error"] + s.severity_breakdown["critical"]
                          = s.total_validations
                   /\ \A v \in Severities :
                          s.severity_breakdown[v]
                              = Len(SelectSeq(h, LAMBDA r : r.severity = v))
                   /\ s.success_rate[2] # 0
                   /\ s.success_rate[1] * s.total_validations
                          = (s.passed * 100) * s.success_rate[2]

\* A summary of a history that holds valid results, an invalid WARNING and
\* an ERROR.
C21_Witness ==
    /\ vlast.op = "get_validation_summary"
    /\ validation_history # <<>>
    /\ vlast.results[1].passed >= 1
    /\ vlast.results[1].severity_breakdown["error"] >= 1
    /\ \E i \in 1 .. Len(validation_history) :
           /\ validation_history[i].severity = "warning"
           /\ ~validation_history[i].is_valid

\* C28: when a strict validate_* call raises for a finding, the history
\* after the raise is the previous history followed by the whole batch, the
\* findings after the one that triggered the raise included.
C28_RaiseKeepsWholeBatch ==
    [][(/\ validations' = validations + 1
        /\ vlast'.op \in ValidateOps
        /\ vlast'.raised = "ValueError")
           => /\ strict_mode
              /\ validation_history' = validation_history \o vlast'.results
              /\ Len(validation_history') = Len(validation_history) + Len(vlast'.results)]_vars

\* A strict call raised for its first finding and the INFO finding behind
\* it is in the history, after findings of an earlier call.
C28_Witness ==
    /\ strict_mode
    /\ vlast.raised = "ValueError"
    /\ Len(vlast.results) >= 2
    /\ vlast.results[1].severity = "error"
    /\ vlast.results[Len(vlast.results)].severity = "info"
    /\ Len(validation_history) > Len(vlast.results)
    /\ validation_history[Len(validation_history)] = vlast.results[Len(vlast.results)]

\* C30: every result of a validate_* call with severity ERROR is invalid,
\* every valid result has severity INFO or WARNING, none has severity
\* CRITICAL, and so the batch holds an invalid ERROR result exactly when it
\* holds an ERROR result.
C30_ErrorMeansInvalid ==
    vlast.op \in ValidateOps =>
        LET rs == vlast.results IN
        /\ \A i \in 1 .. Len(rs) :
               /\ rs[i].severity = "error" => rs[i].is_valid = FALSE
               /\ rs[i].is_valid => rs[i].severity \in {"info", "warning"}
               /\ rs[i].severity # "critical"
        /\ Raises(TRUE, rs) <=> \E i \in 1 .. Len(rs) : rs[i].severity = "error"

\* A batch with an ERROR result and a valid result.
C30_Witness ==
    /\ vlast.op = "validate_macro_data"
    /\ vlast.args.indicator_type = "gdp"
    /\ \E i \in 1 .. Len(vlast.results) : vlast.results[i].severity = "error"
    /\ vlast.results[Len(vlast.results)].is_valid
    /\ vlast.results[Len(vlast.results)].field_name = "value"

\* Whether the sequence a is a suffix of the sequence b.
IsSuffix(a, b) ==
    /\ Len(a) <= Len(b)
    /\ a = SubSeq(b, Len(b) - Len(a) + 1, Len(b))

\* C29: in every reachable state the log of a window with a shorter
\* duration is a suffix of the log of every window with a longer duration.
C29_ShorterLogIsSuffix ==
    constructed =>
        \A p, q \in DOMAIN limits :
            WindowSeconds(p) < WindowSeconds(q)
                => IsSuffix(call_history[p], call_history[q])

\* The 'second' window has lost a call that the 'minute' window keeps, and
\* still holds a later one.
C29_Witness ==
    /\ DOMAIN limits = {"second", "minute"}
    /\ Len(call_history["second"]) = 1
    /\ Len(call_history["minute"]) = 2
    /\ call_history["minute"][1] < call_history["minute"][2]
    /\ \A t \in Threads : pc[t] = "idle"

\* The wrapper's call is under way or over.
WrapperCalled == wrapper.state \in {"loop", "with", "returned", "raised"}

\* C27: a function wrapped by rate_limited(max_retries=M, base_delay=d) is
\* invoked at most M+1 times per wrapper call, each invocation right after a
\* blocking acquire of the shared limiter that returned True; the wrapper
\* returns the result of the first invocation that does not raise, has slept
\* d*2^(k-1) after the k-th failure for k <= M, re-raises the exception of
\* the (M+1)-th failure, and every call of it ends.
C27_WrapperRetriesAndTerminates ==
    /\ [](WrapperCalled =>
            LET M == wrapper.max_retries
                n == Len(wrapper.outcomes)
            IN  /\ n <= Max(M + 1, 0)
                /\ \A i \in 1 .. n - 1 : wrapper.outcomes[i].raises
                /\ wrapper.retry_count = Len(wrapper.failures)
                /\ wrapper.retry_count <= Max(M + 1, 0)
                /\ Len(wrapper.sleeps) = IF wrapper.retry_count > M THEN Max(M, 0)
                                         ELSE wrapper.retry_count
                /\ \A k \in 1 .. Len(wrapper.sleeps) :
                       wrapper.sleeps[k] = wrapper.base_delay * (2 ^ (k - 1))
                /\ (wrapper.state = "returned" /\ M >= 0) =>
                       /\ n >= 1
                       /\ ~wrapper.outcomes[n].raises
                       /\ wrapper.result = wrapper.outcomes[n].value
                /\ wrapper.state = "raised" =>
                       /\ wrapper.retry_count = M + 1
                       /\ wrapper.raised = wrapper.failures[M + 1]
                       /\ n >= 1 => wrapper.outcomes[n].raises)
    /\ [][Len(wrapper'.outcomes) = Len(wrapper.outcomes) + 1 =>
             /\ last.thread = 1
             /\ last.op = "acquire_blocking"
             /\ last.ret = "True"
             /\ scope[1] = "entering"
             /\ \A p \in DOMAIN limits :
                    call_history[p] # <<>>
                    /\ call_history[p][Len(call_history[p])] = now]_vars
    /\ (wrapper.state = "loop") ~> (wrapper.state \in {"returned", "raised"})

\* With max_retries = 2 and base_delay = 0.3 s the function raised twice and
\* then returned: the wrapper slept 0.3 s and 0.6 s and returned that
\* result, and one of the acquires had to wait.
C27_Witness ==
    /\ wrapper.state = "returned"
    /\ wrapper.max_retries = 2
    /\ wrapper.base_delay = 3
    /\ Len(wrapper.outcomes) = 3
    /\ wrapper.sleeps = <<3, 6>>
    /\ wrapper.result = 2
    /\ last.wait_time # None

\* The client's call has ended with an exception after the provider's
\* last answer had the status st.
FailedOn(st) == client.state = "raised" /\ client.status = st

\* C22: when the provider's 429 ends a client's request, the client has
\* issued the request a second time (after sleeping for Retry-After), and
\* the caller gets the error only after that second request failed too.
C22_RateLimitedReissuedOnce ==
    FailedOn(429) => client.call_gets = 2

\* C23: a 400 response makes the CoinGecko call fail at once, and the
\* message of its error is the provider's structured error message whenever
\* the body holds one; the generic message is used only when it holds none.
C23_BadRequestCarriesProviderMessage ==
    (FailedOn(400) /\ client.provider = "coingecko") =>
        /\ client.call_gets = 1
        /\ client.sends = 1
        /\ client.error.type = "CoinGeckoAPIError"
        /\ client.body = "structured" =>
               client.error.message = "Bad request: provider's error_message"
        /\ client.error.message = "Bad request - check API parameters" =>
               client.body # "structured"

\* C24: a 401 or a 403 response makes the client call fail at once with an
\* authentication error, the request having gone out once: neither the
\* client nor the transport sent it again.
C24_AuthFailureIsAuthError ==
    (FailedOn(401) \/ FailedOn(403)) =>
        /\ client.error.message = "Invalid API key or authentication failed"
        /\ client.call_gets = 1
        /\ client.sends = 1

\* The widest window of the client's limiter.  No run lasts as long as it,
\* so its log holds every call the limiter has recorded.
WidestWindow == IF client.provider = "coingecko" THEN "hour" ELSE "day"

\* C25: every session.get of _make_request comes right after a blocking
\* acquire of the client's own limiter that returned True and was made after
\* the previous session.get, and at every moment the client has issued at
\* most as many GETs as its limiter has recorded calls.
C25_EveryGetFollowsItsAcquire ==
    /\ [](client.state # "none" =>
            /\ now < WindowSeconds(WidestWindow)
            /\ client.gets <= Len(call_history[WidestWindow]))
    /\ [][(client.state # "none" /\ client'.gets # client.gets) =>
             /\ client'.gets = client.gets + 1
             /\ scope[1] = "entering"
             /\ last.thread = 1
             /\ last.op = "acquire_blocking"
             /\ last.ret = "True"
             /\ Len(call_history[WidestWindow]) = client.gets + 1
             /\ call_history[WidestWindow][client.gets + 1] = now]_vars

\* The second GET of a client with one call per minute has gone out, after
\* its acquire had waited for the first one to leave the window.
C25_Witness ==
    /\ client.state = "sent"
    /\ client.gets = 2
    /\ limits["minute"] = 1
    /\ last.wait_time # None
    /\ now >= WindowSeconds("minute")

\* C26: with the client's permissive validator, a fetch whose _make_request
\* returned data hands that data to its caller, whatever the validator
\* found in it.
C26_ValidationIsNoGate ==
    [][(client.state = "fetched" /\ client'.state # "fetched") =>
          /\ client'.state = "returned"
          /\ client'.data = client.data
          /\ client'.error = NoError]_vars

\* get_coin_market_data has returned a coin whose negative price the
\* validator reported as an ERROR that is not valid, and get_series a table
\* half of whose values are missing.
C26_Witness ==
    /\ client.state = "returned"
    /\ client.validate_data
    /\ \/ client.data = [kind |-> "markets", coins |-> <<BadCoin>>]
       \/ /\ client.data.kind = "observations"
          /\ client.data.table = SeriesTable(<<1, 2>>, <<NaN, 9>>)
    /\ \E i \in 1 .. Len(vlast.results) :
           vlast.results[i].severity = "error" /\ ~vlast.results[i].is_valid
    /\ \E i \in 1 .. Len(validation_history) :
           validation_history[i].severity = "error" /\ ~validation_history[i].is_valid

====
